---- MODULE Spec2Model ----
(***************************************************************************)
(* Habit and HabitTracker of src/src/core/AtomicHabits.js (lines 10-330).  *)
(*                                                                         *)
(* Time is an integer number of ticks; a calendar day is TicksPerDay       *)
(* ticks (the source's 1000*60*60*24 milliseconds).  A Date object is the  *)
(* record [t |-> "Date", ms |-> n]; the ISO string JSON.stringify makes of *)
(* it is [t |-> "iso", ms |-> n].  The "YYYY-MM-DD" string of a day is the *)
(* day's number.  localStorage's slot is the variable storage, holding a   *)
(* tagged description of the JSON text.                                    *)
(***************************************************************************)
EXTENDS Integers, Sequences, FiniteSets, TLC

\* ui is the state of the page's HabitTrackingInterface, NoUI while the
\* tracker is used without a page; heap holds the Habit objects that a
\* caller made by itself and the arrays their completions fields refer to,
\* NoHeap where every habit is held by the tracker
VARIABLES now, habits, categories, storage, lastOp, ui, heap

vars == <<now, habits, categories, storage, lastOp, ui, heap>>

(* ------------------------------ bounds --------------------------------- *)
TicksPerDay == 2
MaxDay == 2
\* completions are dated on the days 0..MaxDay; the clock starts on StartDay
\* and runs to the midnight LateDays days after MaxDay
StartDay == 1
LateDays == 2
\* getCompletionRate is asked for 1..MaxRateDays days
MaxRateDays == 3
MaxNow == (MaxDay + LateDays) * TicksPerDay
Days == 0..MaxDay
\* the ids generateId can return; MoreGenIds where several are needed
GenIds == {"g1"}
MoreGenIds == {"g1", "g2"}
GivenIds == {"a"}
Ids == GivenIds \cup GenIds
ExtraCategories == {"custom", "health"}

(* --------------------------- dates and days ---------------------------- *)
DateObj(ms) == [t |-> "Date", ms |-> ms]

\* date.toISOString().split('T')[0]: the UTC calendar day of an instant
ISODate(date) == date.ms \div TicksPerDay

\* new Date("YYYY-MM-DD"): UTC midnight of that day
ParseDate(dateStr) == dateStr * TicksPerDay

\* mutant: Math.ceil for Math.floor
DayDiff_ceil(a, b) == (a - b + TicksPerDay - 1) \div TicksPerDay

\* Math.floor((a - b) / (1000 * 60 * 60 * 24))
DayDiff(a, b) == (a - b) \div TicksPerDay

\* JSON.stringify of a Date (Date.prototype.toJSON) gives its ISO string
StringifyDate(v) == IF v.t = "Date" THEN [t |-> "iso", ms |-> v.ms] ELSE v

Max(a, b) == IF a >= b THEN a ELSE b

(* ------------------------------- Habit --------------------------------- *)
DefaultCategories ==
  {"health", "productivity", "learning", "social", "creative", "general"}

\* destructuring default: the field's value, or the default when absent
Field(cfg, f, d) == IF f \in DOMAIN cfg THEN cfg[f] ELSE d

\* no id field, or a falsy one (the empty string), makes `id || generateId()`
HasId(cfg) == "id" \in DOMAIN cfg /\ cfg.id # ""

Habit(cfg, gid, t) ==
  [ id            |-> IF HasId(cfg) THEN cfg.id ELSE gid,
    name          |-> Field(cfg, "name", ""),
    description   |-> Field(cfg, "description", ""),
    category      |-> Field(cfg, "category", "general"),
    cue           |-> Field(cfg, "cue", ""),
    craving       |-> Field(cfg, "craving", ""),
    response      |-> Field(cfg, "response", ""),
    reward        |-> Field(cfg, "reward", ""),
    difficulty    |-> Field(cfg, "difficulty", 1),
    frequency     |-> Field(cfg, "frequency", "daily"),
    targetCount   |-> Field(cfg, "targetCount", 1),
    streak        |-> Field(cfg, "streak", 0),
    longestStreak |-> Field(cfg, "longestStreak", 0),
    completions   |-> Field(cfg, "completions", <<>>),
    isActive      |-> Field(cfg, "isActive", TRUE),
    createdAt     |-> Field(cfg, "createdAt", DateObj(t)),
    updatedAt     |-> Field(cfg, "updatedAt", DateObj(t)) ]

\* mutant: the duplicate test compares the instants, not the calendar days
isCompletedToday_byInstant(h, date) ==
  \E i \in 1..Len(h.completions) : h.completions[i].timestamp = date

isCompletedToday(h, date) ==
  \E i \in 1..Len(h.completions) : h.completions[i].date = ISODate(date)

\* Array.prototype.sort with (a, b) => new Date(a.date) - new Date(b.date):
\* stable, ascending by day
RECURSIVE InsertByDate(_, _)
InsertByDate(s, c) ==
  IF s = <<>> THEN <<c>>
  ELSE IF ParseDate(s[Len(s)].date) - ParseDate(c.date) > 0
       THEN Append(InsertByDate(SubSeq(s, 1, Len(s) - 1), c), s[Len(s)])
       ELSE Append(s, c)

\* mutant: the log is walked in the order of the calls
SortByDate_asPushed(s) == s

RECURSIVE SortByDate(_)
SortByDate(s) ==
  IF s = <<>> THEN <<>>
  ELSE InsertByDate(SortByDate(SubSeq(s, 1, Len(s) - 1)), s[Len(s)])

\* mutant: the loop stops one pair early (i > 0 for i >= 0)
RECURSIVE StreakWalk_skipFirst(_, _, _)
StreakWalk_skipFirst(sorted, i, tempStreak) ==
  IF i < 2 THEN tempStreak
  ELSE IF DayDiff(ParseDate(sorted[i + 1].date), ParseDate(sorted[i].date)) = 1
       THEN StreakWalk_skipFirst(sorted, i - 1, tempStreak + 1)
       ELSE tempStreak

\* the for loop of updateStreak: i runs from length-2 down to 0 (here from
\* Len-1 down to 1), tempStreak grows while adjacent days differ by 1
RECURSIVE StreakWalk(_, _, _)
StreakWalk(sorted, i, tempStreak) ==
  IF i < 1 THEN tempStreak
  ELSE IF DayDiff(ParseDate(sorted[i + 1].date), ParseDate(sorted[i].date)) = 1
       THEN StreakWalk(sorted, i - 1, tempStreak + 1)
       ELSE tempStreak

\* the streak the walk gives whatever the age of the last completion
WalkedStreak(h) ==
  LET sortedCompletions == SortByDate(h.completions)
  IN StreakWalk(sortedCompletions, Len(sortedCompletions) - 1, 1)

\* mutant: the age of the last completion is not looked at
updateStreak_noDecay(h, t) ==
  IF Len(h.completions) = 0
  THEN [h EXCEPT !.streak = 0]
  ELSE [h EXCEPT !.completions = SortByDate(h.completions),
                 !.streak = WalkedStreak(h),
                 !.longestStreak = Max(@, WalkedStreak(h))]

\* the streak updateStreak computes at instant t for a log that is not empty
CurrentStreak(h, t) ==
  LET sortedCompletions == SortByDate(h.completions)
      lastCompletion ==
        ParseDate(sortedCompletions[Len(sortedCompletions)].date)
  IN IF DayDiff(t, lastCompletion) <= 1 THEN WalkedStreak(h) ELSE 0

\* mutant: longestStreak is overwritten with the streak
updateStreak_overwrite(h, t) ==
  IF Len(h.completions) = 0
  THEN [h EXCEPT !.streak = 0]
  ELSE [h EXCEPT !.completions = SortByDate(h.completions),
                 !.streak = CurrentStreak(h, t),
                 !.longestStreak = CurrentStreak(h, t)]

\* mutant: longestStreak is left as it was
updateStreak_noMax(h, t) ==
  IF Len(h.completions) = 0
  THEN [h EXCEPT !.streak = 0]
  ELSE [h EXCEPT !.completions = SortByDate(h.completions),
                 !.streak = CurrentStreak(h, t)]

updateStreak(h, t) ==
  IF Len(h.completions) = 0
  THEN [h EXCEPT !.streak = 0]
  ELSE LET sortedCompletions == SortByDate(h.completions)
           lastCompletion ==
             ParseDate(sortedCompletions[Len(sortedCompletions)].date)
           daysDiff == DayDiff(t, lastCompletion)
           currentStreak ==
             IF daysDiff <= 1
             THEN StreakWalk(sortedCompletions, Len(sortedCompletions) - 1, 1)
             ELSE 0
       IN [h EXCEPT !.completions = sortedCompletions,
                    !.streak = currentStreak,
                    !.longestStreak = Max(@, currentStreak)]

\* mutant: updatedAt is bumped before the duplicate test
complete_touchFirst(h, date, t) ==
  LET touched == [h EXCEPT !.updatedAt = DateObj(t)]
  IN IF isCompletedToday(h, date)
     THEN [habit |-> touched, result |-> FALSE]
     ELSE [habit  |-> updateStreak(
                        [touched EXCEPT !.completions =
                           Append(@, [date |-> ISODate(date),
                                      timestamp |-> date, count |-> 1])], t),
           result |-> TRUE]

\* Habit.complete(date) called at instant t: the habit afterwards and the
\* value returned
complete(h, date, t) ==
  IF isCompletedToday(h, date)
  THEN [habit |-> h, result |-> FALSE]
  ELSE LET pushed ==
             [h EXCEPT !.completions =
                Append(@, [date |-> ISODate(date), timestamp |-> date,
                           count |-> 1])]
       IN [habit  |-> [updateStreak(pushed, t) EXCEPT !.updatedAt = DateObj(t)],
           result |-> TRUE]

\* mutant: the window is taken by calendar day, both ends included
getCompletionRate_byDay(h, days, t) ==
  LET today == ISODate(DateObj(t))
      completionsInPeriod ==
        {i \in 1..Len(h.completions) :
           /\ h.completions[i].date >= today - days
           /\ h.completions[i].date <= today}
  IN [num |-> Cardinality(completionsInPeriod) * 100, den |-> days]

\* getCompletionRate(days) called at instant t.  startDate is the instant
\* `days` days before t at the same time of day (setDate(getDate() - days),
\* with no change of the zone's UTC offset in between); a record counts when
\* the UTC midnight of its day lies between the two instants.  The result is
\* the exact quotient num / den.
getCompletionRate(h, days, t) ==
  LET endDate == t
      startDate == t - days * TicksPerDay
      completionsInPeriod ==
        {i \in 1..Len(h.completions) :
           LET completionDate == ParseDate(h.completions[i].date)
           IN completionDate >= startDate /\ completionDate <= endDate}
  IN [num |-> Cardinality(completionsInPeriod) * 100, den |-> days]

\* Math.floor((now - created) / (1000 * 60 * 60 * 24)) + 1, created being
\* new Date(this.createdAt) of a Date or of its ISO string
getDaysSinceCreation(h, t) == DayDiff(t, h.createdAt.ms) + 1

\* mutant: the record carries no longestStreak
toJSON_noLongest(h) ==
  [ id |-> h.id, name |-> h.name, description |-> h.description,
    category |-> h.category, cue |-> h.cue, craving |-> h.craving,
    response |-> h.response, reward |-> h.reward,
    difficulty |-> h.difficulty, frequency |-> h.frequency,
    targetCount |-> h.targetCount, streak |-> h.streak,
    completions |-> h.completions,
    isActive |-> h.isActive, createdAt |-> h.createdAt,
    updatedAt |-> h.updatedAt ]

toJSON(h) ==
  [ id |-> h.id, name |-> h.name, description |-> h.description,
    category |-> h.category, cue |-> h.cue, craving |-> h.craving,
    response |-> h.response, reward |-> h.reward,
    difficulty |-> h.difficulty, frequency |-> h.frequency,
    targetCount |-> h.targetCount, streak |-> h.streak,
    longestStreak |-> h.longestStreak, completions |-> h.completions,
    isActive |-> h.isActive, createdAt |-> h.createdAt,
    updatedAt |-> h.updatedAt ]

\* mutant: the streak is recomputed from the log on load
fromJSON_recompute(data, gid, t) == updateStreak(Habit(data, gid, t), t)

fromJSON(data, gid, t) == Habit(data, gid, t)

(* ---------------------------- localStorage ---------------------------- *)
\* JSON values are tagged records: [t |-> "absent"] (no such key),
\* [t |-> "falsy"] (null, 0, "" or false), [t |-> "num"] (a non-zero number),
\* [t |-> "obj"] (a plain object), [t |-> "str", chars |-> <<...>>],
\* [t |-> "array", v |-> a set of elements].  Elements of a habits array are
\* [t |-> "pair", id |-> k, rec |-> r] for [k, r], or any other JSON value;
\* r is [t |-> "rec", v |-> record], [t |-> "null"], [t |-> "undef"] or
\* [t |-> "prim"] (a number, string or boolean).
AbsentV == [t |-> "absent"]
NumV == [t |-> "num"]
ArrayV(S) == [t |-> "array", v |-> S]
StrV(cs) == [t |-> "str", chars |-> cs]
PairV(k, r) == [t |-> "pair", id |-> k, rec |-> r]
RecV(r) == [t |-> "rec", v |-> r]
ObjectText(h, c) == [kind |-> "obj", habits |-> h, categories |-> c]

\* localStorage.getItem gives null: nothing stored under the key
NoItem == [kind |-> "absent"]
\* text JSON.parse rejects
Garbage == [kind |-> "garbage"]
\* the text "null"
NullText == [kind |-> "null"]
\* a top-level number, string, true or array: every property read is undefined
PrimText == [kind |-> "prim"]

EmptyMap == [k \in {} |-> k]
EmptyCfg == [f \in {} |-> f]

\* JSON.stringify of the record toJSON returns: the Dates become ISO strings
Stringify(rec) ==
  [rec EXCEPT !.createdAt = StringifyDate(@),
              !.updatedAt = StringifyDate(@),
              !.completions =
                 [i \in 1..Len(@) |->
                    [@[i] EXCEPT !.timestamp = StringifyDate(@)]]]

\* mutant: only the categories added to the seed list are written
saveToStorage_customOnly(hs, cats) ==
  ObjectText(ArrayV({PairV(id, RecV(Stringify(toJSON(hs[id])))) : id \in DOMAIN hs}),
             ArrayV(cats \ DefaultCategories))

saveToStorage(hs, cats) ==
  ObjectText(ArrayV({PairV(id, RecV(Stringify(toJSON(hs[id])))) : id \in DOMAIN hs}),
             ArrayV(cats))

\* ([id, habitData]) => [id, Habit.fromJSON(habitData)] raises a TypeError
\* when the element is not iterable or habitData is null or undefined
EntryThrows(e) ==
  \/ e.t \notin {"pair", "str"}
  \/ e.t = "str" /\ Len(e.chars) < 2
  \/ e.t = "pair" /\ e.rec.t \in {"null", "undef"}

\* mutant: a record is keyed by its name
EntryKey_byName(e) == IF e.t = "pair" THEN e.rec.v.name ELSE e.chars[1]

EntryKey(e) == IF e.t = "pair" THEN e.id ELSE e.chars[1]

EntryHabit(e, gid, t) ==
  IF e.t = "pair" /\ e.rec.t = "rec"
  THEN fromJSON(e.rec.v, gid, t)
  ELSE fromJSON(EmptyCfg, gid, t)

\* `if (data.habits) this.habits = new Map(data.habits.map(...))`
HabitsThrows(hv) ==
  \/ hv.t \in {"num", "str", "obj"}
  \/ hv.t = "array" /\ \E e \in hv.v : EntryThrows(e)

HabitsLoaded(hv, old, gid, t) ==
  IF hv.t \in {"absent", "falsy"} THEN old
  ELSE [k \in {EntryKey(e) : e \in hv.v} |->
          EntryHabit(CHOOSE e \in hv.v : EntryKey(e) = k, gid, t)]

\* `if (data.categories) this.categories = new Set(data.categories)`
CategoriesThrows(cv) == cv.t \in {"num", "obj"}

CategoriesLoaded(cv, old) ==
  IF cv.t \in {"absent", "falsy"} THEN old
  ELSE IF cv.t = "str" THEN {cv.chars[i] : i \in 1..Len(cv.chars)}
  ELSE cv.v

\* loadFromStorage on a tracker whose fields are self.habits and
\* self.categories; gid is what generateId returns for a record without id
loadFromStorage(self, st, gid, t) ==
  IF st.kind \in {"absent", "prim"} THEN self
  ELSE IF st.kind \in {"garbage", "null"}
       THEN [self EXCEPT !.habits = EmptyMap]
  ELSE IF HabitsThrows(st.habits) \/ CategoriesThrows(st.categories)
       THEN [self EXCEPT !.habits = EmptyMap]
  ELSE [habits     |-> HabitsLoaded(st.habits, self.habits, gid, t),
        categories |-> CategoriesLoaded(st.categories, self.categories)]

\* new HabitTracker()
HabitTracker(st, gid, t) ==
  loadFromStorage([habits |-> EmptyMap, categories |-> DefaultCategories],
                  st, gid, t)

\* Map.prototype.set and Map.prototype.delete
\* mutant: an existing key keeps its value
MapSet_keepOld(m, k, v) == [x \in DOMAIN m \cup {k} |-> IF x \in DOMAIN m THEN m[x] ELSE v]

MapSet(m, k, v) == [x \in DOMAIN m \cup {k} |-> IF x = k THEN v ELSE m[x]]
MapDelete(m, k) == [x \in DOMAIN m \ {k} |-> m[x]]

getHabit(id) == IF id \in DOMAIN habits THEN {habits[id]} ELSE {}

\* Array.from(this.habits.values()), as the set of the stored habits (the
\* Map's insertion order is not kept)
getAllHabits == {habits[id] : id \in DOMAIN habits}

\* Array.from(this.categories), as a set
getCategories == categories

\* mutant: every stored habit is taken as active
getActiveHabits_all == getAllHabits

getActiveHabits == {h \in getAllHabits : h.isActive}

\* ({...habit, isCompletedToday: habit.isCompletedToday()}): a plain object
\* with the habit's own fields and the flag
getTodaysHabits ==
  { [f \in DOMAIN habit \cup {"isCompletedToday"} |->
       IF f = "isCompletedToday"
       THEN isCompletedToday(habit, DateObj(now))
       ELSE habit[f]] : habit \in getActiveHabits }

\* a JavaScript number that is the quotient n / d, kept exact
Quot(n, d) == [num |-> n, den |-> d]

\* habits.reduce((sum, h) => sum + h.streak, 0)
RECURSIVE SumStreaks(_)
SumStreaks(hs) ==
  IF hs = {} THEN 0
  ELSE LET h == CHOOSE x \in hs : TRUE
       IN h.streak + SumStreaks(hs \ {h})

\* Math.max(...habits.map(h => h.longestStreak), 0)
MaxLongest(hs) ==
  LET vs == {h.longestStreak : h \in hs} \cup {0}
  IN CHOOSE v \in vs : \A w \in vs : w <= v

\* mutant: the statistics are taken over every stored habit
getOverallStats_overAll ==
  LET hs == getAllHabits
      totalHabits == Cardinality(hs)
      completedToday ==
        Cardinality({h \in hs : isCompletedToday(h, DateObj(now))})
      totalStreaks == SumStreaks(hs)
  IN [ totalHabits |-> totalHabits,
       completedToday |-> completedToday,
       completionRateToday |->
         IF totalHabits > 0 THEN Quot(completedToday * 100, totalHabits)
         ELSE Quot(0, 1),
       averageStreak |->
         IF totalHabits > 0 THEN Quot(totalStreaks, totalHabits)
         ELSE Quot(0, 1),
       longestStreak |-> MaxLongest(hs) ]

getOverallStats ==
  LET hs == getActiveHabits
      totalHabits == Cardinality(hs)
      completedToday ==
        Cardinality({h \in hs : isCompletedToday(h, DateObj(now))})
      totalStreaks == SumStreaks(hs)
      avgStreak ==
        IF totalHabits > 0 THEN Quot(totalStreaks, totalHabits) ELSE Quot(0, 1)
  IN [ totalHabits |-> totalHabits,
       completedToday |-> completedToday,
       completionRateToday |->
         IF totalHabits > 0 THEN Quot(completedToday * 100, totalHabits)
         ELSE Quot(0, 1),
       averageStreak |-> avgStreak,
       longestStreak |-> MaxLongest(hs) ]

(* ------------------------------ inputs --------------------------------- *)
HabitConfigs ==
  { [name |-> "n"],
    [id |-> "a", name |-> "run", category |-> "custom", isActive |-> FALSE,
     streak |-> 1, longestStreak |-> 2],
    [id |-> "a", streak |-> 2, longestStreak |-> 1] }

GivenConfigs == {cfg \in HabitConfigs : HasId(cfg)}

\* the dates handed to completeHabit: the default `new Date()` and the
\* midnight of any day, past or future
CompleteDates == {DateObj(now)} \cup {DateObj(ParseDate(d)) : d \in Days}

\* what generateId can return to a constructor that is given habitData:
\* 'habit_' + Date.now() + '_' + nine random base-36 digits, a string that
\* is taken not to be a key of the collection; not called when habitData
\* carries an id
Generates(habitData, gid) == HasId(habitData) \/ gid \notin DOMAIN habits

\* no object besides those of the tracker
NoHeap == [arrays |-> << >>, objs |-> [k \in {} |-> k]]

\* no page: the HabitTracker is used by itself
\* init is how far the async init has come ("suspended" at its await,
\* "finished", or "rejected" by an error), bound tells whether bindEvents
\* has run, cards are the ids of the habits that have a card in the page
NoUI == [init |-> "none", bound |-> FALSE, isLoading |-> FALSE,
         currentView |-> "today", cards |-> {}]

\* the call made last and the value it returned
Op(op, id, result) == [op |-> op, id |-> id, result |-> result]

(* ------------------------------ actions -------------------------------- *)
Init ==
  /\ now = StartDay * TicksPerDay
  /\ storage = NoItem
  /\ \E gid \in GenIds :
       LET tr == HabitTracker(storage, gid, now)
       IN habits = tr.habits /\ categories = tr.categories
  /\ lastOp = Op("new", "", TRUE)
  /\ ui = NoUI
  /\ heap = NoHeap

addHabit(habitData, gid) ==
  LET habit == Habit(habitData, gid, now)
  IN /\ habits' = MapSet(habits, habit.id, habit)
     /\ storage' = saveToStorage(habits', categories)
     /\ lastOp' = Op("addHabit", habit.id, TRUE)
     /\ UNCHANGED <<now, categories>>

\* mutant: an accepted completion brings the streak of every habit up to date
completeHabit_refreshAll(id, date) ==
  IF id \in DOMAIN habits
  THEN LET r == complete(habits[id], date, now)
       IN /\ habits' = [x \in DOMAIN habits |->
                          IF x = id THEN r.habit
                          ELSE IF r.result THEN updateStreak(habits[x], now)
                          ELSE habits[x]]
          /\ IF r.result
             THEN storage' = saveToStorage(habits', categories)
             ELSE UNCHANGED storage
          /\ lastOp' = Op("completeHabit", id, r.result)
          /\ UNCHANGED <<now, categories>>
  ELSE /\ lastOp' = Op("completeHabit", id, FALSE)
       /\ UNCHANGED <<now, habits, categories, storage>>

\* mutant: the collection is written out when the id is unknown
completeHabit_saveUnknown(id, date) ==
  IF id \in DOMAIN habits
  THEN LET r == complete(habits[id], date, now)
       IN /\ habits' = [habits EXCEPT ![id] = r.habit]
          /\ IF r.result
             THEN storage' = saveToStorage(habits', categories)
             ELSE UNCHANGED storage
          /\ lastOp' = Op("completeHabit", id, r.result)
          /\ UNCHANGED <<now, categories>>
  ELSE /\ lastOp' = Op("completeHabit", id, FALSE)
       /\ storage' = saveToStorage(habits, categories)
       /\ UNCHANGED <<now, habits, categories>>

\* habit.complete(date) acts on the stored habit itself, whatever it returns
completeHabit(id, date) ==
  IF id \in DOMAIN habits
  THEN LET r == complete(habits[id], date, now)
       IN /\ habits' = [habits EXCEPT ![id] = r.habit]
          /\ IF r.result
             THEN storage' = saveToStorage(habits', categories)
             ELSE UNCHANGED storage
          /\ lastOp' = Op("completeHabit", id, r.result)
          /\ UNCHANGED <<now, categories>>
  ELSE /\ lastOp' = Op("completeHabit", id, FALSE)
       /\ UNCHANGED <<now, habits, categories, storage>>

\* mutant: Map.delete's result is not looked at
deleteHabit_alwaysTrue(id) ==
  /\ habits' = MapDelete(habits, id)
  /\ storage' = saveToStorage(habits', categories)
  /\ lastOp' = Op("deleteHabit", id, TRUE)
  /\ UNCHANGED <<now, categories>>

\* mutant: the collection is written out before the habit is removed
deleteHabit_saveFirst(id) ==
  LET deleted == id \in DOMAIN habits
  IN /\ habits' = MapDelete(habits, id)
     /\ IF deleted
        THEN storage' = saveToStorage(habits, categories)
        ELSE UNCHANGED storage
     /\ lastOp' = Op("deleteHabit", id, deleted)
     /\ UNCHANGED <<now, categories>>

deleteHabit(id) ==
  LET deleted == id \in DOMAIN habits
  IN /\ habits' = MapDelete(habits, id)
     /\ IF deleted
        THEN storage' = saveToStorage(habits', categories)
        ELSE UNCHANGED storage
     /\ lastOp' = Op("deleteHabit", id, deleted)
     /\ UNCHANGED <<now, categories>>

addCategory(category) ==
  /\ categories' = categories \cup {category}
  /\ storage' = saveToStorage(habits, categories')
  /\ lastOp' = Op("addCategory", "", TRUE)
  /\ UNCHANGED <<now, habits>>

\* the clock moves on by n ticks, up to last, with no call made
Tick(n, last) ==
  /\ now + n <= last
  /\ now' = now + n
  /\ lastOp' = Op("tick", "", TRUE)
  /\ UNCHANGED <<habits, categories, storage>>

\* a new session: a new HabitTracker is constructed over the same storage
Reload(gid) ==
  /\ LET tr == HabitTracker(storage, gid, now)
     IN habits' = tr.habits /\ categories' = tr.categories
  /\ lastOp' = Op("reload", "", TRUE)
  /\ UNCHANGED <<now, storage>>

\* one habit, under every date and a clock that moves tick by tick
Next ==
  \/ \E habitData \in GivenConfigs, gid \in GenIds :
       Generates(habitData, gid) /\ addHabit(habitData, gid) /\ UNCHANGED <<ui, heap>>
  \/ \E id \in Ids, date \in CompleteDates : completeHabit(id, date) /\ UNCHANGED <<ui, heap>>
  \/ \E id \in Ids : deleteHabit(id) /\ UNCHANGED <<ui, heap>>
  \/ Tick(1, MaxNow) /\ UNCHANGED <<ui, heap>>
  \/ \E gid \in GenIds : Reload(gid) /\ UNCHANGED <<ui, heap>>

Spec == Init /\ [][Next]_vars

\* several habits, completed with the default date, under a clock that moves
\* day by day
TrackerNext ==
  \/ \E habitData \in HabitConfigs, gid \in GenIds :
       Generates(habitData, gid) /\ addHabit(habitData, gid) /\ UNCHANGED <<ui, heap>>
  \/ \E id \in Ids : completeHabit(id, DateObj(now)) /\ UNCHANGED <<ui, heap>>
  \/ \E id \in Ids : deleteHabit(id) /\ UNCHANGED <<ui, heap>>
  \/ \E category \in ExtraCategories : addCategory(category) /\ UNCHANGED <<ui, heap>>
  \/ Tick(TicksPerDay, ParseDate(MaxDay + 1)) /\ UNCHANGED <<ui, heap>>
  \/ \E gid \in GenIds : Reload(gid) /\ UNCHANGED <<ui, heap>>

TrackerSpec == Init /\ [][TrackerNext]_vars

\* habits added with and without an id, deleted and reloaded, with two ids
\* for generateId to return and no completion
AddNext ==
  \/ \E habitData \in HabitConfigs, gid \in MoreGenIds :
       Generates(habitData, gid) /\ addHabit(habitData, gid) /\ UNCHANGED <<ui, heap>>
  \/ \E id \in GivenIds \cup MoreGenIds : deleteHabit(id) /\ UNCHANGED <<ui, heap>>
  \/ Tick(TicksPerDay, ParseDate(MaxDay + 1)) /\ UNCHANGED <<ui, heap>>
  \/ \E gid \in MoreGenIds : Reload(gid) /\ UNCHANGED <<ui, heap>>

AddSpec == Init /\ [][AddNext]_vars

\* the same tracker over a slot that holds somebody else's text
CorruptStorages ==
  { NoItem, Garbage, NullText, PrimText,
    ObjectText(NumV, AbsentV),
    ObjectText(ArrayV({NumV}), AbsentV),
    ObjectText(ArrayV({PairV("a", [t |-> "null"])}), AbsentV),
    ObjectText(ArrayV({PairV("a", [t |-> "prim"])}), AbsentV),
    ObjectText(ArrayV({StrV(<<"a", "b">>)}), AbsentV),
    ObjectText(AbsentV, NumV),
    ObjectText(AbsentV, [t |-> "obj"]),
    ObjectText(AbsentV, StrV(<<"x", "y">>)),
    ObjectText(ArrayV({PairV("a", RecV([id |-> "a", name |-> "kept"]))}), NumV) }

InitCorrupt ==
  /\ now = StartDay * TicksPerDay
  /\ storage \in CorruptStorages
  /\ \E gid \in GenIds :
       LET tr == HabitTracker(storage, gid, now)
       IN habits = tr.habits /\ categories = tr.categories
  /\ lastOp = Op("new", "", TRUE)
  /\ ui = NoUI
  /\ heap = NoHeap

CorruptSpec == InitCorrupt /\ [][TrackerNext]_vars

(* ------------------------- the page's interface ------------------------ *)
\* the ids generateId can return for the demo habits, and for a habit of the
\* form
DemoGenIds == {"g1", "g2", "g3"}
FormGenIds == {"g4"}

\* the cards the user clicks or swipes
ClickIds == {"a", "g1", "g4"}

\* the clock of a page session runs to the midnight of this day
PageLastDay == 2

DemoHabits ==
  << [ name |-> "Drink Water",
       description |-> "Start each day with a glass of water",
       category |-> "health", cue |-> "When I wake up",
       craving |-> "I want to feel refreshed and energized",
       response |-> "I will drink a full glass of water",
       reward |-> "I will feel hydrated and ready for the day",
       difficulty |-> 1 ],
     [ name |-> "Read for 10 Minutes",
       description |-> "Read something educational or inspiring",
       category |-> "learning", cue |-> "After I have my morning coffee",
       craving |-> "I want to learn something new",
       response |-> "I will read for at least 10 minutes",
       reward |-> "I will feel intellectually stimulated",
       difficulty |-> 2 ],
     [ name |-> "Practice Gratitude",
       description |-> "Write down three things I'm grateful for",
       category |-> "general", cue |-> "Before I go to bed",
       craving |-> "I want to end the day on a positive note",
       response |-> "I will write three things I'm grateful for",
       reward |-> "I will feel peaceful and content",
       difficulty |-> 1 ] >>

\* what the three generateId calls of addDemoHabits can return: strings that
\* differ from each other
DemoIdChoices ==
  {ids \in [1..Len(DemoHabits) -> DemoGenIds] :
     \A i, j \in 1..Len(DemoHabits) : i # j => ids[i] # ids[j]}

\* the demo habits are left out
addDemoHabits_none(hs, i, ids, t) == hs

\* demoHabits.forEach(habitData => tracker.addHabit(habitData)): the
\* collection after the calls
RECURSIVE addDemoHabits(_, _, _, _)
addDemoHabits(hs, i, ids, t) ==
  IF i > Len(DemoHabits) THEN hs
  ELSE LET habit == Habit(DemoHabits[i], ids[i], t)
       IN addDemoHabits(MapSet(hs, habit.id, habit), i + 1, ids, t)

\* createHabitCard(habit) calls habit.isCompletedToday(): a TypeError when
\* habit has an own property isCompletedToday, which then is a boolean and
\* hides the method of Habit.prototype (a plain copy has no such method at
\* all)
createHabitCardThrows(habit) == "isCompletedToday" \in DOMAIN habit

\* renderTodayView makes a card of every entry of getTodaysHabits()
renderTodayViewThrows == \E habit \in getTodaysHabits : createHabitCardThrows(habit)

\* renderAllHabitsView makes a card of every habit of getAllHabits()
renderAllHabitsViewThrows == \E habit \in getAllHabits : createHabitCardThrows(habit)

\* the DOMContentLoaded handler: new HabitTrackingInterface() constructs the
\* tracker over the slot and starts init, which runs showLoading and
\* setupDOM and is suspended at its await; then the demo habits are added
\* when the collection is empty.  hasLoader tells whether the page holds the
\* element #loading-container before setupDOM has run; without it
\* showLoading raises a TypeError after setting isLoading, and init is over.
DOMContentLoaded(hasLoader, ids, gid) ==
  LET tr == HabitTracker(storage, gid, now)
      none == Cardinality(DOMAIN tr.habits) = 0
      hs == IF none THEN addDemoHabits(tr.habits, 1, ids, now) ELSE tr.habits
  IN /\ ui.init # "suspended"
     /\ habits' = hs
     /\ categories' = tr.categories
     /\ storage' = IF none THEN saveToStorage(hs, tr.categories) ELSE storage
     /\ ui' = [init |-> IF hasLoader THEN "suspended" ELSE "rejected",
               bound |-> FALSE, isLoading |-> TRUE,
               currentView |-> "today", cards |-> {}]
     /\ lastOp' = Op("DOMContentLoaded", "", TRUE)
     /\ UNCHANGED now

\* init after its await: bindEvents, loadInitialData (renderTodayView,
\* updateProgressDashboard, the empty state), hideLoading
initResumes ==
  /\ ui.init = "suspended"
  /\ ui' = IF renderTodayViewThrows
           THEN [ui EXCEPT !.init = "rejected", !.bound = TRUE]
           ELSE [ui EXCEPT !.init = "finished", !.bound = TRUE,
                           !.isLoading = FALSE]
  /\ lastOp' = Op("init", "", ~renderTodayViewThrows)
  /\ UNCHANGED <<now, habits, categories, storage>>

\* a click on a view toggle; currentView is set when the rendering is done
switchView(viewName) ==
  /\ ui.bound
  /\ ui.init # "suspended"
  /\ LET throws == IF viewName = "today" THEN renderTodayViewThrows
                   ELSE renderAllHabitsViewThrows
     IN /\ ui' = IF throws THEN ui
                 ELSE IF viewName = "all"
                      THEN [ui EXCEPT !.currentView = viewName,
                                      !.cards = DOMAIN habits]
                      ELSE [ui EXCEPT !.currentView = viewName]
        /\ lastOp' = Op("switchView", viewName, ~throws)
  /\ UNCHANGED <<now, habits, categories, storage>>

\* a click on the check button of the card of habit id, or a swipe of the
\* card to the right: handleHabitCompletion(card, habit) and the listener of
\* the habitCompleted event it dispatches, which only reads
handleHabitCompletion(id) ==
  /\ ui.init # "suspended"
  /\ id \in ui.cards
  /\ id \in DOMAIN habits
  /\ IF isCompletedToday(habits[id], DateObj(now))
     THEN /\ lastOp' = Op("handleHabitCompletion", id, FALSE)
          /\ UNCHANGED habits
     ELSE /\ habits' = [habits EXCEPT ![id] = complete(@, DateObj(now), now).habit]
          /\ lastOp' = Op("handleHabitCompletion", id, TRUE)
  /\ UNCHANGED <<now, categories, storage, ui>>

\* the form is submitted: the listener of habitCreated adds the habit and
\* renders the current view again
handleHabitCreated(habitData, gid) ==
  /\ ui.bound
  /\ ui.init # "suspended"
  /\ addHabit(habitData, gid)
  /\ ui' = IF ui.currentView = "all" /\ ~renderAllHabitsViewThrows'
           THEN [ui EXCEPT !.cards = DOMAIN habits']
           ELSE ui

\* what the form can hand over: no id, a name and one of the listed categories
FormData == {[name |-> "n", category |-> "health"]}

\* the slot at the first launch: empty, unreadable, written by a session that
\* deleted every habit, or written with one inactive habit
PageStorages ==
  { NoItem, Garbage,
    saveToStorage(EmptyMap, DefaultCategories),
    saveToStorage(MapSet(EmptyMap, "a",
                         Habit([id |-> "a", isActive |-> FALSE], "g1", 0)),
                  DefaultCategories) }

PageInit ==
  /\ now = StartDay * TicksPerDay
  /\ storage \in PageStorages
  /\ habits = EmptyMap
  /\ categories = DefaultCategories
  /\ lastOp = Op("new", "", TRUE)
  /\ ui = NoUI
  /\ heap = NoHeap

PageNext ==
  \/ \E hasLoader \in BOOLEAN, ids \in DemoIdChoices, gid \in GenIds :
       DOMContentLoaded(hasLoader, ids, gid) /\ UNCHANGED heap
  \/ initResumes /\ UNCHANGED heap
  \/ \E viewName \in {"today", "all"} : switchView(viewName) /\ UNCHANGED heap
  \/ \E id \in ClickIds : handleHabitCompletion(id) /\ UNCHANGED heap
  \/ \E habitData \in FormData, gid \in FormGenIds :
       /\ Generates(habitData, gid) /\ handleHabitCreated(habitData, gid)
       /\ UNCHANGED heap
  \/ ui.init # "suspended" /\ Tick(TicksPerDay, ParseDate(PageLastDay)) /\ UNCHANGED <<ui, heap>>

PageSpec == PageInit /\ [][PageNext]_vars

\* the continuation of init is a microtask: it runs as soon as the handler
\* that suspended it has returned
PageFairSpec == PageSpec /\ WF_vars(initResumes /\ UNCHANGED heap)

(* ------------------- Habit objects and their arrays -------------------- *)
\* An object of heap.objs is [ref, fields]: ref is the index in heap.arrays
\* of the array its completions field refers to, fields are its other
\* fields (with completions left empty).  Two objects with the same ref hold
\* one and the same array.

\* the habit o as a value, with the content of its array
Deref(hp, o) == [o.fields EXCEPT !.completions = hp.arrays[o.ref]]

\* mutant: the record has no completions field
toJSONCompletions_none(o) == 0

\* completions: this.completions, the array itself
toJSONCompletions(o) == o.ref

\* o.toJSON(): the record of the values, and the array its completions field
\* refers to (0: no such field)
toJSONObject(hp, o) ==
  [rec |-> toJSON(Deref(hp, o)), completions |-> toJSONCompletions(o)]

\* new Habit(data) in the heap hp, assigned to the variable name:
\* this.completions = completions keeps the array that was handed over, and
\* the default `completions = []` makes a new one
NewHabit(hp, name, data, gid, t) ==
  LET given == data.completions # 0
      ref == IF given THEN data.completions ELSE Len(hp.arrays) + 1
      arrays == IF given THEN hp.arrays ELSE Append(hp.arrays, << >>)
      habit == Habit([f \in DOMAIN data.rec \ {"completions"} |-> data.rec[f]], gid, t)
  IN [arrays |-> arrays,
      objs |-> MapSet(hp.objs, name, [ref |-> ref, fields |-> habit])]

\* const h2 = Habit.fromJSON(h.toJSON())
CopyByJSON(gid) ==
  /\ "h" \in DOMAIN heap.objs
  /\ heap' = NewHabit(heap, "h2", toJSONObject(heap, heap.objs["h"]), gid, now)
  /\ lastOp' = Op("fromJSON", "h2", TRUE)
  /\ UNCHANGED <<now, habits, categories, storage, ui>>

\* the object of the variable name completes: the push and the sort act on
\* the array, the other assignments on the object
completeObject(name, date) ==
  /\ name \in DOMAIN heap.objs
  /\ LET o == heap.objs[name]
         r == complete(Deref(heap, o), date, now)
     IN /\ heap' = [arrays |-> [heap.arrays EXCEPT ![o.ref] = r.habit.completions],
                    objs |-> [heap.objs EXCEPT ![name].fields =
                                [r.habit EXCEPT !.completions = << >>]]]
        /\ lastOp' = Op("complete", name, r.result)
  /\ UNCHANGED <<now, habits, categories, storage, ui>>

\* the configurations of the first object
ObjectConfigs == {[name |-> "n"], [id |-> "a", streak |-> 2, longestStreak |-> 1]}

ObjectInit ==
  /\ now = StartDay * TicksPerDay
  /\ storage = NoItem
  /\ habits = EmptyMap
  /\ categories = DefaultCategories
  /\ lastOp = Op("new", "h", TRUE)
  /\ ui = NoUI
  /\ \E cfg \in ObjectConfigs, gid \in GenIds :
       heap = NewHabit(NoHeap, "h", [rec |-> cfg, completions |-> 0], gid, now)

ObjectNext ==
  \/ \E gid \in GenIds : CopyByJSON(gid)
  \/ \E name \in {"h", "h2"}, date \in CompleteDates : completeObject(name, date)
  \/ Tick(TicksPerDay, ParseDate(MaxDay + 1)) /\ UNCHANGED <<ui, heap>>

ObjectSpec == ObjectInit /\ [][ObjectNext]_vars

(* ------------------------------ claims --------------------------------- *)
DaysOf(h) == {h.completions[i].date : i \in 1..Len(h.completions)}
RecordsOn(h, day) == {i \in 1..Len(h.completions) : h.completions[i].date = day}
Today == ISODate(DateObj(now))

\* C1: a complete call for a calendar day that already has a record (made by
\* an earlier call, at the same or another instant of that day) returns false
\* and changes nothing: the habit (completions, streak, longestStreak,
\* updatedAt) and the stored state are as before, with one record for the day.
C1_DuplicateRejected ==
  [][\A id \in Ids, date \in CompleteDates :
       (/\ id \in DOMAIN habits
        /\ isCompletedToday(habits[id], date)
        /\ completeHabit(id, date))
       => /\ lastOp'.result = FALSE
          /\ habits' = habits
          /\ storage' = storage
          /\ Cardinality(RecordsOn(habits'[id], ISODate(date))) = 1]_vars

\* a second call was rejected at a later instant of the day of the first
C1_Witness ==
  /\ lastOp = Op("completeHabit", "a", FALSE)
  /\ "a" \in DOMAIN habits
  /\ Today \in DaysOf(habits["a"])
  /\ habits["a"].updatedAt.ms < now
  /\ ISODate(habits["a"].updatedAt) = Today

\* C2: every habit's log holds at most one record per calendar day, and
\* every record has count 1.
C2_OneRecordPerDay ==
  \A id \in DOMAIN habits :
    LET c == habits[id].completions
    IN \A i, j \in 1..Len(c) :
         /\ c[i].count = 1
         /\ (i # j => c[i].date # c[j].date)

\* a reloaded log of several days on which one more call was rejected
C2_Witness ==
  /\ lastOp = Op("completeHabit", "a", FALSE)
  /\ "a" \in DOMAIN habits
  /\ Len(habits["a"].completions) >= 2
  /\ \A i \in 1..Len(habits["a"].completions) :
       habits["a"].completions[i].timestamp.t = "iso"


MaxOf(S) == CHOOSE x \in S : \A y \in S : y <= x
MinOf(S) == CHOOSE x \in S : \A y \in S : x <= y
IsRun(S) == S # {} /\ S = MinOf(S)..MaxOf(S)

\* complete(date) is accepted, date's day is the latest of the log, and the
\* log is then a run of consecutive days
CompletesRun(h, date) ==
  /\ ~isCompletedToday(h, date)
  /\ IsRun(DaysOf(h) \cup {ISODate(date)})
  /\ ISODate(date) = MaxOf(DaysOf(h) \cup {ISODate(date)})

\* C3 as stated: after complete has been called once for each of N
\* consecutive days, the latest last, streak is N.
C3_StreakIsN ==
  [][\A id \in Ids, date \in CompleteDates :
       (/\ id \in DOMAIN habits
        /\ CompletesRun(habits[id], date)
        /\ completeHabit(id, date))
       => habits'[id].streak = Cardinality(DaysOf(habits[id])) + 1]_vars

\* C3 (amended): after complete has been called once for each of N
\* consecutive days, the latest last, streak is N when the latest day is
\* today, yesterday or a later day at that call, and 0 when it is older.
C3_StreakIsNUnlessOld ==
  [][\A id \in Ids, date \in CompleteDates :
       (/\ id \in DOMAIN habits
        /\ CompletesRun(habits[id], date)
        /\ completeHabit(id, date))
       => habits'[id].streak =
            IF Today - ISODate(date) <= 1
            THEN Cardinality(DaysOf(habits[id])) + 1
            ELSE 0]_vars

\* three consecutive days completed, streak 3
C3_Witness ==
  /\ lastOp = Op("completeHabit", "a", TRUE)
  /\ "a" \in DOMAIN habits
  /\ DaysOf(habits["a"]) = 0..2
  /\ habits["a"].streak = 3

\* complete(date) is accepted and date's day lies two or more days after the
\* latest day of the log
CompletesAfterGap(h, date) ==
  /\ DaysOf(h) # {}
  /\ ISODate(date) - MaxOf(DaysOf(h)) >= 2

\* C4 as stated: a complete call that adds a most recent completion two or
\* more days after the previous one sets streak to 0.
C4_GapResetsToZero ==
  [][\A id \in Ids, date \in CompleteDates :
       (/\ id \in DOMAIN habits
        /\ CompletesAfterGap(habits[id], date)
        /\ completeHabit(id, date))
       => habits'[id].streak = 0]_vars

\* C4 (amended): a complete call that adds a most recent completion two or
\* more days after the previous one sets streak to 1 when the new day is
\* today, yesterday or a later day, and to 0 when it is older.
C4_GapRestartsAtOne ==
  [][\A id \in Ids, date \in CompleteDates :
       (/\ id \in DOMAIN habits
        /\ CompletesAfterGap(habits[id], date)
        /\ completeHabit(id, date))
       => habits'[id].streak = IF Today - ISODate(date) <= 1 THEN 1 ELSE 0]_vars

\* days 0 and 2 completed, the later one last and in time: streak 1
C4_Witness ==
  /\ lastOp = Op("completeHabit", "a", TRUE)
  /\ "a" \in DOMAIN habits
  /\ DaysOf(habits["a"]) = {0, 2}
  /\ habits["a"].completions[2].timestamp.t = "Date"
  /\ habits["a"].streak = 1

\* the same log completed too late: streak 0
C4_WitnessOld ==
  /\ lastOp = Op("completeHabit", "a", TRUE)
  /\ "a" \in DOMAIN habits
  /\ DaysOf(habits["a"]) = {0, 2}
  /\ habits["a"].completions[2].timestamp.t = "Date"
  /\ habits["a"].streak = 0

\* C5: over every completeHabit call, accepted or rejected, and every advance
\* of the clock, no habit's longestStreak decreases.
C5_LongestStreakMonotone ==
  [][lastOp'.op \in {"completeHabit", "tick"}
       => \A id \in DOMAIN habits :
            /\ id \in DOMAIN habits'
            /\ habits'[id].longestStreak >= habits[id].longestStreak]_vars

\* an accepted complete that resets the streak under a longer longestStreak
C5_Witness ==
  /\ lastOp = Op("completeHabit", "a", TRUE)
  /\ "a" \in DOMAIN habits
  /\ habits["a"].streak = 0
  /\ habits["a"].longestStreak >= 2
  /\ Len(habits["a"].completions) >= 2

GoodStreaks(h) == h.longestStreak >= h.streak /\ h.streak >= 0

GoodConfig(cfg) ==
  /\ Field(cfg, "longestStreak", 0) >= Field(cfg, "streak", 0)
  /\ Field(cfg, "streak", 0) >= 0

\* C6 as stated: longestStreak >= streak >= 0 in every habit, a habit just
\* constructed from a configuration object included.
C6_LongestAtLeastStreak ==
  \A id \in DOMAIN habits : GoodStreaks(habits[id])

\* C6 (amended): after any step, a habit has longestStreak >= streak >= 0
\* unless it was just constructed from a configuration whose own values break
\* it, or it broke it before and the step was not an accepted complete of it:
\* the constructor stores what it is given, complete establishes the
\* inequality, and rejected calls, the clock and reloads keep it.
C6_StreaksKeptGood ==
  [][\A id \in DOMAIN habits' :
       \/ GoodStreaks(habits'[id])
       \/ \E cfg \in HabitConfigs, gid \in GenIds :
            /\ addHabit(cfg, gid)
            /\ Habit(cfg, gid, now).id = id
            /\ ~GoodConfig(cfg)
       \/ /\ id \in DOMAIN habits
          /\ ~GoodStreaks(habits[id])
          /\ lastOp' # Op("completeHabit", id, TRUE)]_vars

\* an accepted complete on a habit that was built with streak > longestStreak
C6_Witness ==
  /\ lastOp = Op("completeHabit", "a", TRUE)
  /\ "a" \in DOMAIN habits
  /\ habits["a"].name = ""
  /\ Len(habits["a"].completions) = 1
  /\ habits["a"].createdAt.t = "iso"
  /\ GoodStreaks(habits["a"])

\* the number of consecutive days of S that end with day d
RECURSIVE RunEndingAt(_, _)
RunEndingAt(S, d) == IF d \in S THEN 1 + RunEndingAt(S, d - 1) ELSE 0

\* the streak of the glossary: the run of days ending at the latest
\* completion if that is today or yesterday, 0 otherwise
GlossaryStreak(h) ==
  IF DaysOf(h) = {} THEN 0
  ELSE IF MaxOf(DaysOf(h)) \in {Today, Today - 1}
       THEN RunEndingAt(DaysOf(h), MaxOf(DaysOf(h)))
       ELSE 0

\* C7: in every state a habit with a log has the streak of the glossary: the
\* number of consecutive days with a completion ending at the latest one when
\* that is today or yesterday, and 0 otherwise.
C7_StreakIsCurrentRun ==
  \A id \in DOMAIN habits :
    Len(habits[id].completions) > 0 => habits[id].streak = GlossaryStreak(habits[id])


\* st is the text written for the collection hs and the category set cats:
\* one [id, record] pair per habit, the record being the habit's toJSON with
\* its Dates as ISO strings, and the array of the categories
IsSerializationOf(st, hs, cats) ==
  /\ st.kind = "obj"
  /\ st.habits.t = "array"
  /\ {e.id : e \in st.habits.v} = DOMAIN hs
  /\ \A e \in st.habits.v :
       e.t = "pair" /\ e.rec = RecV(Stringify(toJSON(hs[e.id])))
  /\ st.categories = ArrayV(cats)

\* C8: when addHabit, addCategory, an accepted completeHabit or a deleteHabit
\* that removed a habit returns, the slot holds the serialization of the
\* whole collection and category set as they are then.
C8_SavedOnEveryMutation ==
  [][(\/ lastOp'.op \in {"addHabit", "addCategory"}
      \/ lastOp'.op \in {"completeHabit", "deleteHabit"} /\ lastOp'.result)
       => IsSerializationOf(storage', habits', categories')]_vars

\* one of two habits was deleted; the other, with a log, is what is stored
C8_Witness ==
  /\ lastOp.op = "deleteHabit" /\ lastOp.result
  /\ Cardinality(DOMAIN habits) = 1
  /\ \E id \in DOMAIN habits : Len(habits[id].completions) >= 1
  /\ "custom" \in categories
  /\ IsSerializationOf(storage, habits, categories)

\* what the claims compare of a habit and of a tracker
HabitView(h) ==
  [ id |-> h.id, name |-> h.name, description |-> h.description,
    category |-> h.category, cue |-> h.cue, craving |-> h.craving,
    response |-> h.response, reward |-> h.reward,
    difficulty |-> h.difficulty, frequency |-> h.frequency,
    targetCount |-> h.targetCount, isActive |-> h.isActive,
    streak |-> h.streak, longestStreak |-> h.longestStreak,
    days |-> [i \in 1..Len(h.completions) |-> h.completions[i].date] ]

TrackerView(tr) ==
  [ habits |-> [id \in DOMAIN tr.habits |-> HabitView(tr.habits[id])],
    categories |-> tr.categories ]

\* C9: a new HabitTracker over the slot has the ids, descriptive fields,
\* isActive flags, completion days, streaks, longestStreaks and categories of
\* the tracker in memory; the streaks are the stored ones.
C9_ReloadGivesSameTracker ==
  \A gid \in GenIds :
    TrackerView(HabitTracker(storage, gid, now)) =
      TrackerView([habits |-> habits, categories |-> categories])

\* two habits and an added category in memory, one habit with a streak that
\* a recomputation now would reset
C9_Witness ==
  /\ lastOp.op \in {"addHabit", "completeHabit", "deleteHabit", "addCategory"}
  /\ Cardinality(DOMAIN habits) = 2
  /\ "custom" \in categories
  /\ \E id \in DOMAIN habits :
       /\ Len(habits[id].completions) >= 1
       /\ habits[id].streak >= 1
       /\ CurrentStreak(habits[id], now) = 0

\* C10: a tracker constructed over a slot holding malformed data has no
\* habits and exactly the six default categories.
C10_CorruptStartsEmpty ==
  (lastOp.op \in {"new", "reload"} /\ storage \in CorruptStorages)
    => habits = EmptyMap /\ categories = DefaultCategories

\* what C11 compares of a habit: the id, the descriptive fields, the
\* completion records as they are and in their order, and the two streaks
RoundTripView(h) ==
  [ id |-> h.id, name |-> h.name, description |-> h.description,
    category |-> h.category, cue |-> h.cue, craving |-> h.craving,
    response |-> h.response, reward |-> h.reward,
    difficulty |-> h.difficulty, frequency |-> h.frequency,
    targetCount |-> h.targetCount, isActive |-> h.isActive,
    completions |-> h.completions,
    streak |-> h.streak, longestStreak |-> h.longestStreak ]

\* C11: for every habit h, fromJSON(toJSON(h)) has h's id, descriptive
\* fields, completion records in h's order, streak and longestStreak, at
\* whatever instant it is made and whatever the log would now recompute to.
C11_RoundTripSame ==
  \A id \in DOMAIN habits, gid \in GenIds :
    RoundTripView(fromJSON(toJSON(habits[id]), gid, now)) =
      RoundTripView(habits[id])

\* a habit with a log of two days whose stored streak is no longer what
\* updateStreak would compute, under a longer longestStreak
C11_Witness ==
  /\ "a" \in DOMAIN habits
  /\ Len(habits["a"].completions) >= 2
  /\ habits["a"].streak >= 1
  /\ CurrentStreak(habits["a"], now) # habits["a"].streak
  /\ habits["a"].longestStreak > habits["a"].streak
  /\ fromJSON(toJSON(habits["a"]), "g1", now).streak = habits["a"].streak

\* C12: completeHabit(id, date) returns true exactly when id is a key of the
\* collection and the habit has no record for date's calendar day; when it
\* returns false the collection, the categories and the stored text are what
\* they were.
C12_TrueIffKnownAndNewDay ==
  [][\A id \in Ids, date \in CompleteDates :
       completeHabit(id, date)
       => /\ lastOp'.result =
               (id \in DOMAIN habits /\ RecordsOn(habits[id], ISODate(date)) = {})
          /\ (~lastOp'.result
                => habits' = habits /\ categories' = categories
                   /\ storage' = storage)]_vars

\* a call with an unknown id was rejected while a habit with a log is stored
C12_Witness ==
  /\ lastOp = Op("completeHabit", "g1", FALSE)
  /\ "g1" \notin DOMAIN habits
  /\ "a" \in DOMAIN habits
  /\ Len(habits["a"].completions) >= 1
  /\ IsSerializationOf(storage, habits, categories)

\* C13: deleteHabit(id) returns true exactly when id was a key.  On true the
\* habit is gone, the other habits are as before and the stored text is the
\* serialization of what is left; on false the collection and the stored
\* text are as before.  While id is not a key getHabit(id) is absent and
\* completeHabit(id) returns false, and only an addHabit that uses id makes
\* it a key again.
C13_DeleteRemovesUntilAdded ==
  [][\A id \in Ids :
       /\ deleteHabit(id)
            => /\ lastOp'.result = (id \in DOMAIN habits)
               /\ IF lastOp'.result
                  THEN /\ getHabit(id)' = {}
                       /\ habits' = MapDelete(habits, id)
                       /\ IsSerializationOf(storage', habits', categories')
                  ELSE habits' = habits /\ storage' = storage
       /\ (getHabit(id) = {} /\ completeHabit(id, DateObj(now)))
            => lastOp'.result = FALSE
       /\ (getHabit(id) = {} /\ getHabit(id)' # {})
            => lastOp' = Op("addHabit", id, TRUE)]_vars

\* one of two habits with a log was deleted; the other is what is stored
C13_Witness ==
  /\ lastOp = Op("deleteHabit", "a", TRUE)
  /\ getHabit("a") = {}
  /\ "g1" \in DOMAIN habits
  /\ Len(habits["g1"].completions) >= 1
  /\ IsSerializationOf(storage, habits, categories)

\* the defaults C14 names
DefaultOf ==
  [ streak |-> 0, longestStreak |-> 0, completions |-> <<>>,
    isActive |-> TRUE, category |-> "general" ]

ActiveIds == {id \in DOMAIN habits : habits[id].isActive}

\* the number q is n / d
IsQuotient(q, n, d) == q.num * d = n * q.den

RECURSIVE SumOver(_, _)
SumOver(f, S) ==
  IF S = {} THEN 0
  ELSE LET x == CHOOSE y \in S : TRUE IN f[x] + SumOver(f, S \ {x})

\* C15: getOverallStats counts the active habits (totalHabits) and those of
\* them with a record for the current day (completedToday); with an active
\* habit, completionRateToday is completedToday / totalHabits x 100,
\* averageStreak the sum of their streaks / totalHabits and longestStreak the
\* largest of their longestStreaks; with none, every field is 0; and
\* completedToday <= totalHabits.
C15_StatsOverActive ==
  LET s == getOverallStats
      streaks == [id \in ActiveIds |-> habits[id].streak]
  IN /\ s.totalHabits = Cardinality(ActiveIds)
     /\ s.completedToday =
          Cardinality({id \in ActiveIds : RecordsOn(habits[id], Today) # {}})
     /\ s.completedToday <= s.totalHabits
     /\ IF ActiveIds # {}
        THEN /\ IsQuotient(s.completionRateToday,
                           s.completedToday * 100, s.totalHabits)
             /\ IsQuotient(s.averageStreak,
                           SumOver(streaks, ActiveIds), s.totalHabits)
             /\ s.longestStreak =
                  MaxOf({habits[id].longestStreak : id \in ActiveIds})
        ELSE /\ s.longestStreak = 0
             /\ IsQuotient(s.completionRateToday, 0, 1)
             /\ IsQuotient(s.averageStreak, 0, 1)

\* two active habits, one of them completed today: 50 percent, and an
\* average streak of 3 / 2
C15_Witness ==
  /\ Cardinality(ActiveIds) = 2
  /\ getOverallStats.completedToday = 1
  /\ IsQuotient(getOverallStats.completionRateToday, 50, 1)
  /\ IsQuotient(getOverallStats.averageStreak, 3, 2)
  /\ getOverallStats.longestStreak >= 2

RateDays == 1..MaxRateDays

\* the records of h whose day is one of the days lo..hi
RecordsWithin(h, lo, hi) ==
  {i \in 1..Len(h.completions) :
     h.completions[i].date >= lo /\ h.completions[i].date <= hi}

\* now is the first instant of its day
AtMidnight == now = ParseDate(Today)

CompletedEveryDay(h) == DaysOf(h) = ISODate(h.createdAt)..Today

\* C17: a habit with a record for every day from its creation day through
\* today (and here for no other day) has getCompletionRate(days) = 100 for
\* every days from 1 to getDaysSinceCreation().
C17_FullLogGivesHundred ==
  \A id \in DOMAIN habits, days \in RateDays :
    (/\ CompletedEveryDay(habits[id])
     /\ days <= getDaysSinceCreation(habits[id], now))
    => IsQuotient(getCompletionRate(habits[id], days, now), 100, 1)

\* C18: for a habit whose log was built by complete alone, with dates before,
\* on and after the current day, and every days >= 1, getCompletionRate(days)
\* is at least 0 and at most 100.
C18_RateWithinBounds ==
  \A id \in DOMAIN habits, days \in RateDays :
    LET rate == getCompletionRate(habits[id], days, now)
    IN 0 <= rate.num /\ rate.num <= 100 * rate.den

\* C19: getActiveHabits is the set of the stored habits with isActive = true;
\* getTodaysHabits has one entry for each of them, with the habit's fields
\* and a flag isCompletedToday that tells whether the habit has a record for
\* the current day; a habit with isActive = false is in neither, and is in
\* getAllHabits and in the stored text.
C19_ViewsOfActiveHabits ==
  /\ getActiveHabits = {habits[id] : id \in ActiveIds}
  /\ {e.id : e \in getTodaysHabits} = ActiveIds
  /\ Cardinality(getTodaysHabits) = Cardinality(ActiveIds)
  /\ \A e \in getTodaysHabits :
       /\ \A f \in DOMAIN habits[e.id] : e[f] = habits[e.id][f]
       /\ e.isCompletedToday = (RecordsOn(habits[e.id], Today) # {})
  /\ \A id \in DOMAIN habits \ ActiveIds :
       /\ habits[id] \in getAllHabits
       /\ habits[id] \notin getActiveHabits
       /\ \A e \in getTodaysHabits : e.id # id
       /\ storage.kind = "obj"
       /\ PairV(id, RecV(Stringify(toJSON(habits[id])))) \in storage.habits.v

\* an inactive habit completed today next to an active one with an older
\* record and none for today
C19_Witness ==
  /\ DOMAIN habits = {"a", "g1"}
  /\ ~habits["a"].isActive
  /\ Today \in DaysOf(habits["a"])
  /\ habits["g1"].isActive
  /\ DaysOf(habits["g1"]) # {}
  /\ \E e \in getTodaysHabits : e.id = "g1" /\ ~e.isCompletedToday
  /\ Cardinality(getTodaysHabits) = 1

\* C20: started over an empty slot and continued over what the tracker
\* itself wrote, through every call and reload, categories holds the six
\* seed labels, and so does the stored list; addCategory(c) makes categories
\* the old set with c, which is the old set when c was in it.
C20_SeedCategoriesStay ==
  /\ [](/\ DefaultCategories \subseteq categories
        /\ storage.kind = "obj"
             => /\ storage.categories.t = "array"
                /\ DefaultCategories \subseteq storage.categories.v)
  /\ [][\A category \in ExtraCategories :
          addCategory(category)
          => /\ categories' = categories \cup {category}
             /\ categories \subseteq categories'
             /\ (category \in categories => categories' = categories)]_vars

\* addCategory was called in a session that loaded its habits from the slot:
\* seven labels in memory and in the slot
C20_Witness ==
  /\ lastOp.op = "addCategory"
  /\ categories = DefaultCategories \cup {"custom"}
  /\ storage.kind = "obj" /\ storage.categories = ArrayV(categories)
  /\ \E id \in DOMAIN habits : habits[id].createdAt.t = "iso"

\* C21: in every state the category of every stored habit is one of the
\* labels of the tracker's categories.
C21_CategoryIsKnown ==
  \A h \in getAllHabits : h.category \in getCategories

\* the reference streak of a log at the current instant: 0 when the latest
\* day lies more than one whole day back, else the length of the run of
\* consecutive days that ends with the latest day
ReferenceStreak(h) ==
  LET last == MaxOf(DaysOf(h))
  IN IF Today - last > 1 THEN 0 ELSE RunEndingAt(DaysOf(h), last)

\* C22: right after every accepted complete(date) the streak is the reference
\* value (0 when the latest day of the log is more than one whole day before
\* now, else 1 plus the number of successive pairs of adjacent days, walking
\* back from the latest, that differ by exactly 1), and longestStreak is the
\* larger of its previous value and that streak.
C22_StreakIsReference ==
  [][\A id \in Ids, date \in CompleteDates :
       (completeHabit(id, date) /\ lastOp'.result)
       => /\ habits'[id].streak = ReferenceStreak(habits'[id])
          /\ habits'[id].longestStreak =
               Max(habits[id].longestStreak, habits'[id].streak)]_vars

\* on day 3 a call completed the run of the days 0, 1 and 2: streak 3
C22_Witness ==
  /\ lastOp = Op("completeHabit", "a", TRUE)
  /\ Today = 3
  /\ "a" \in DOMAIN habits
  /\ DaysOf(habits["a"]) = {0, 1, 2}
  /\ habits["a"].updatedAt = DateObj(now)
  /\ habits["a"].streak = 3
  /\ habits["a"].longestStreak = 3

\* C23 as stated: after every accepted completion, whatever the date given,
\* the latest day of the log is today and the streak is at least 1.
C23_LatestIsToday ==
  [][\A id \in Ids, date \in CompleteDates :
       (completeHabit(id, date) /\ lastOp'.result)
       => /\ MaxOf(DaysOf(habits'[id])) = Today
          /\ habits'[id].streak >= 1]_vars

\* C23 (amended): after an accepted completion for today, yesterday or a
\* later day (the default date included) the latest day of the log is that
\* day or a later one, the reset branch was not taken and the streak is at
\* least 1; after any accepted completion the streak is 0 exactly when the
\* latest day of the log is two or more days before today.
C23_ResetOnlyWhenLatestIsOld ==
  [][\A id \in Ids, date \in CompleteDates :
       (completeHabit(id, date) /\ lastOp'.result)
       => LET last == MaxOf(DaysOf(habits'[id]))
          IN /\ ISODate(date) >= Today - 1
                  => last >= ISODate(date) /\ habits'[id].streak >= 1
             /\ habits'[id].streak = 0 <=> Today - last > 1]_vars

\* the default date was accepted on a log that holds a later day: the latest
\* day is not today, and the streak is at least 1
C23_Witness ==
  /\ lastOp = Op("completeHabit", "a", TRUE)
  /\ "a" \in DOMAIN habits
  /\ habits["a"].updatedAt = DateObj(now)
  /\ \E i \in 1..Len(habits["a"].completions) :
       habits["a"].completions[i] =
         [date |-> Today, timestamp |-> DateObj(now), count |-> 1]
  /\ MaxOf(DaysOf(habits["a"])) > Today
  /\ habits["a"].streak >= 1

\* C24: when a user action of the page has run to its end (a habit created
\* from the form, a habit completed by the check button of its card or by a
\* swipe to the right), the stored text is the serialization of the
\* collection in memory.
C24_PageActionsPersist ==
  [][(\/ lastOp'.op = "addHabit"
      \/ lastOp'.op = "handleHabitCompletion" /\ lastOp'.result)
       => IsSerializationOf(storage', habits', categories')]_vars

\* C25: whatever is stored, init runs to its end: once it is suspended at its
\* await it goes on to finish, with rendering the today view raising no
\* error, hideLoading reached and isLoading false.
C25_InitRunsToItsEnd ==
  (ui.init = "suspended") ~> (ui.init = "finished" /\ ~ui.isLoading)

\* C26: a launch whose collection read from the slot is empty (nothing
\* stored, an unreadable text, or a text with no habit) adds the three demo
\* habits and stores them while init has not gone on; from its await init
\* does nothing but resume, with bindEvents and the first rendering of the
\* today view, over a collection that holds a habit; and from the launch on
\* the collection is never empty.
C26_DemoHabitsBeforeInitResumes ==
  /\ [](ui.init # "none" => Cardinality(DOMAIN habits) >= 1)
  /\ [][\A hasLoader \in BOOLEAN, ids \in DemoIdChoices, gid \in GenIds :
          (/\ DOMContentLoaded(hasLoader, ids, gid)
           /\ Cardinality(DOMAIN HabitTracker(storage, gid, now).habits) = 0)
          => /\ DOMAIN habits' = {ids[i] : i \in 1..Len(DemoHabits)}
             /\ \A i \in 1..Len(DemoHabits) :
                  habits'[ids[i]] = Habit(DemoHabits[i], ids[i], now)
             /\ Cardinality(getTodaysHabits') = Len(DemoHabits)
             /\ IsSerializationOf(storage', habits', categories')
             /\ ~ui'.bound /\ ui'.init \in {"suspended", "rejected"}]_vars
  /\ [][ui.init = "suspended"
          => initResumes /\ ~ui.bound /\ ui'.bound
             /\ Cardinality(DOMAIN habits) >= 1]_vars

\* init has resumed over the three stored demo habits, after a launch that
\* found an unreadable text or no habit
C26_Witness ==
  /\ lastOp.op = "init"
  /\ ui.bound
  /\ {habits[id].name : id \in DOMAIN habits} =
       {DemoHabits[i].name : i \in 1..Len(DemoHabits)}
  /\ Cardinality(DOMAIN habits) = Len(DemoHabits)
  /\ IsSerializationOf(storage, habits, categories)

\* C27: every habit of the collection is stored under the key that is its
\* own id, and every [id, record] pair of the stored text has the id of its
\* record.
C27_KeyIsOwnId ==
  /\ \A id \in DOMAIN habits : habits[id].id = id
  /\ storage.kind = "obj"
       => \A e \in storage.habits.v :
            e.t = "pair" /\ e.rec.t = "rec" /\ e.rec.v.id = e.id

\* a tracker constructed over a text it wrote, with two habits, one under a
\* given id and one under a generated id
C27_Witness ==
  /\ lastOp.op = "reload"
  /\ storage.kind = "obj"
  /\ Cardinality(storage.habits.v) = 2
  /\ DOMAIN habits = {"a", "g1"}
  /\ habits["a"].id = "a" /\ habits["g1"].id = "g1"

C29_CopySharesLog ==
  /\ []("h2" \in DOMAIN heap.objs => heap.objs["h2"].ref = heap.objs["h"].ref)
  /\ [][\A name \in {"h", "h2"}, date \in CompleteDates :
          (/\ "h2" \in DOMAIN heap.objs
           /\ completeObject(name, date)
           /\ lastOp'.result)
          => LET other == IF name = "h" THEN "h2" ELSE "h"
                 log(o) == Deref(heap', heap'.objs[o]).completions
             IN /\ log("h") = log("h2")
                /\ \E i \in 1..Len(log(other)) :
                     log(other)[i] = [date |-> ISODate(date), timestamp |-> date,
                                      count |-> 1]
                /\ Len(log(other)) = Len(Deref(heap, heap.objs[other]).completions) + 1
                /\ heap'.objs[other] = heap.objs[other]
                /\ heap'.objs[name].fields.streak =
                     CurrentStreak(Deref(heap', heap'.objs[name]), now)
                /\ heap'.objs[name].fields.longestStreak =
                     Max(heap.objs[name].fields.longestStreak,
                         heap'.objs[name].fields.streak)]_vars

\* h2 has completed: the log of h holds the record while the streak of h is
\* still 0 and that of h2 is 1
C29_Witness ==
  /\ lastOp = Op("complete", "h2", TRUE)
  /\ "h2" \in DOMAIN heap.objs
  /\ Len(Deref(heap, heap.objs["h"]).completions) = 1
  /\ heap.objs["h"].fields.streak = 0
  /\ heap.objs["h2"].fields.streak = 1
  /\ heap.objs["h"].fields.updatedAt # heap.objs["h2"].fields.updatedAt

\* C30: addHabit(data) with data.id a key of the collection puts the new
\* habit in the place of the stored one: the keys are the same as before,
\* the habit under the id is the one constructed from data alone, whatever
\* log, streak and longestStreak the stored one had, the other habits are as
\* before, the stored text is that of the new collection, and the call is
\* reported like any other addHabit.
C30_AddReplacesSameId ==
  [][\A habitData \in HabitConfigs, gid \in GenIds :
       (/\ HasId(habitData)
        /\ habitData.id \in DOMAIN habits
        /\ addHabit(habitData, gid))
       => LET id == habitData.id
          IN /\ DOMAIN habits' = DOMAIN habits
             /\ habits'[id] = Habit(habitData, gid, now)
             /\ habits'[id].completions = << >>
             /\ habits'[id].streak = Field(habitData, "streak", 0)
             /\ habits'[id].longestStreak = Field(habitData, "longestStreak", 0)
             /\ \A other \in DOMAIN habits \ {id} : habits'[other] = habits[other]
             /\ IsSerializationOf(storage', habits', categories)
             /\ \A e \in storage'.habits.v :
                  e.id = id => e.rec.v.completions = << >>
             /\ lastOp' = Op("addHabit", id, TRUE)]_vars

\* a habit was added under the id a on a later day, next to a habit with a
\* log: it has no log, and the streak fields of its configuration
C30_Witness ==
  /\ lastOp = Op("addHabit", "a", TRUE)
  /\ DOMAIN habits = {"a", "g1"}
  /\ now > StartDay * TicksPerDay
  /\ habits["a"].createdAt = DateObj(now)
  /\ habits["a"].completions = << >>
  /\ habits["a"].streak = 2 /\ habits["a"].longestStreak = 1
  /\ Len(habits["g1"].completions) >= 1
  /\ IsSerializationOf(storage, habits, categories)

====
